---- MODULE Spec2Model ----
(***************************************************************************)
(* SmartQueue (src/src/index.ts): a rate-limited, priority-aware request   *)
(* queue.  The model follows the class field by field and handler by       *)
(* handler.  One action is one run-to-completion step of the JavaScript    *)
(* event loop: a synchronous call of the public API, the part of an async  *)
(* function between two awaits, or a timer callback.                       *)
(*                                                                         *)
(* Time.  Every timestamp is stored relative to the clock, as              *)
(* (value - Date.now()) in milliseconds, so Date.now() reads 0 and the     *)
(* Tick action subtracts one second from every stored timestamp.  A        *)
(* timestamp further in the past than any pending timer can observe is     *)
(* clamped (Floor).  Timer callbacks run when due, in any order among the  *)
(* due ones, at most MaxLate seconds late, and never between the           *)
(* microtasks of one turn.                                                 *)
(***************************************************************************)
EXTENDS Integers, Sequences, FiniteSets, Bags, TLC

\* ---------------------------------------------------------------- bounds
MaxCalls == 3
MaxRetries == 1
MaxClears == 1
MaxLate == 1
MaxClock == 4

\* -------------------------------------------------------------- constants
Second == 1000
Infinity == 1000000
Undefined == -1
now == 0
null == 0

Keys == {"a", "b"}

\* What the users of the instance do in one behaviour: at most .calls calls
\* of request(), retry() and clear() together, of which at most .retries of
\* retry() and .clears of clear(), and request() with (key, rule) arguments
\* from .requests ("lol" is no rule of the configuration).  With .burst the
\* calls of request() are all made in one synchronous step and the timers
\* are exact: each callback runs in the millisecond it is due.
Workloads ==
  { [calls |-> MaxCalls, retries |-> MaxRetries, clears |-> MaxClears, burst |-> FALSE,
     requests |-> {<<"a", "common">>, <<"b", "individual">>}],
    [calls |-> MaxCalls + 1, retries |-> 0, clears |-> 0, burst |-> FALSE,
     requests |-> {<<"b", "individual">>}],
    [calls |-> MaxCalls - 1, retries |-> MaxRetries, clears |-> MaxClears, burst |-> FALSE,
     requests |-> {<<"b", "individual">>, <<"b", "lol">>}] }
RetryArgs == {Undefined, 0, 1}

\* constructor argument (rates per second, as in the tests, scaled so that
\* the windows are whole seconds)
defaultRule == "common"
ConfigRules ==
  [common |-> [rate |-> 1, limit |-> 2, priority |-> 3],
   individual |-> [rate |-> 1, limit |-> 1, priority |-> 1]]
\* defaultParams.rules (lines 55-61), scaled as ConfigRules is
DefaultRules == [common |-> ConfigRules.common]
overall == [rate |-> 1, limit |-> 2, priority |-> 1]
retryTime == 2

heatPart == (overall.limit * 1000) \div overall.rate

Max(a, b) == IF a > b THEN a ELSE b

VARIABLES
  load,                   \* the workload of this behaviour
  ownRules,               \* whether the constructor was given a rules map: if not,
                          \* Object.assign leaves params.rules the very object
                          \* defaultParams.rules (line 79)
  rules,                  \* params.rules: name -> Rule
  defaultParams,          \* the object of lines 50-69, one per module, that every
                          \* instance is constructed from: its .rules
  ignoreOverallOverheat,  \* params.ignoreOverallOverheat
  queue,                  \* this.queue: the Map, as object ids in insertion order
  objs,                   \* the QueueItem objects ever created, by object id
  overheat,               \* this.overheat
  pending,                \* this.pending
  chains,                 \* activations of execute() that have not started a request yet
  running,                \* activations of execute() awaiting requestPromise: .retryState
                          \* and .retryTimer are their variables, .arg is the argument
                          \* of the last retry() call (history)
  timers,                 \* armed setTimeout callbacks (a bag)
  items,                  \* history, per item: .att invocations of its request, .cb
                          \* invocations of its callback, .res what the callback was
                          \* given, .last how its latest attempt ended, .rt its
                          \* attempts that resolved after a retry signal
  nextId,                 \* next item to submit
  ghost,                  \* history: per key, the items enqueued and not yet started, in enqueue order
  lastStart,              \* history: per key, the time of the last dispatch start
  lastRule,               \* history: per key, the ruleName of the partition it started from
  retries,                \* history: retry signals so far
  clears,                 \* history: clear() calls so far
  dropped,                \* history: the items that were in the Map at a clear() and
                          \* have not been added again since
  asked,                  \* history, per item: the rule name given to request()
  clock,                  \* history, kept for a burst: ms since the first request()
  started                 \* history, kept for a burst: per key, dispatch starts so far

vars == <<load, ownRules, rules, defaultParams, ignoreOverallOverheat, queue, objs, overheat, pending, chains,
          running, timers, items, nextId, ghost, lastStart, lastRule, retries, clears, dropped, asked, clock, started>>

Items == 1..(MaxCalls + 1)

\* the cooldown window of a rule, in ms
Window(r) == (r.limit * 1000) \div r.rate

\* history timestamps older than this are not told apart
Horizon == Max(heatPart, Max(Window(ConfigRules.common), Window(ConfigRules.individual)))
\* stored timestamps older than this are not told apart
Floor == 0 - MaxLate * Second

\* a suspended activation of execute(): .pc is where it resumes ("shift":
\* in shift(), with the result .q of findMostImportant; "exec": in
\* execute(), with the popped .item of .q; "delay": in findMostImportant,
\* when its timer is .due), .pinned whether execute() was given its queue,
\* .quiet whether it was resumed by a timer callback and no code of the
\* users has run since, so that none of their calls can come before its
\* next microtask
Chain(pc, q, item, due, pinned, quiet) ==
  [pc |-> pc, q |-> q, item |-> item, due |-> due, pinned |-> pinned, quiet |-> quiet]

Timer(kind, q, item, stamp, due) ==
  [kind |-> kind, q |-> q, item |-> item, stamp |-> stamp, due |-> due]

\* ------------------------------------------------------- pure operations

\* this.queue.get(queueName): the Map holds at most one object per key
get(qs, os, key) ==
  LET S == {i \in 1..Len(qs) : os[qs[i]].key = key}
  IN IF S = {} THEN null ELSE qs[CHOOSE i \in S : TRUE]

\* clear() that leaves the Map as it is
clear_keeps(qs) == qs

\* this.queue.clear()
clear(qs) == <<>>

\* this.queue.delete(key)
remove(qs, os, key) == SelectSeq(qs, LAMBDA o : os[o].key # key)

\* the value undefined where a Rule is expected: reading a field of it is
\* a TypeError
undefinedRule == [rate |-> 0, limit |-> 0, priority |-> 0]

\* this.params.rules[name]
lookup(rs, name) == IF name \in DOMAIN rs THEN rs[name] ELSE undefinedRule

\* the registry after getRule(name), and the rule it returns
getRule(rs, name) ==
  IF lookup(rs, name) # undefinedRule
  THEN [rules |-> rs, rule |-> rs[name]]
  ELSE LET d == lookup(rs, defaultRule)
       IN [rules |-> [n \in DOMAIN rs \cup {name} |-> IF n = name THEN d ELSE rs[n]],
           rule |-> d]

\* createQueue without the push onto an existing partition
createQueue_first(rs, qs, os, queueName, item, rule) ==
  LET q == get(qs, os, queueName) IN
  IF q # null
  THEN [rules |-> rs, queue |-> qs, objs |-> os, q |-> q]
  ELSE LET g == getRule(rs, rule)
           new == [cooldown |-> now, data |-> <<item>>, key |-> queueName,
                   rule |-> g.rule, ruleName |-> rule]
       IN [rules |-> g.rules, queue |-> Append(qs, Len(os) + 1),
           objs |-> Append(os, new), q |-> Len(os) + 1]

\* createQueue that binds the partition it finds to the rule it is given
createQueue_rebinds(rs, qs, os, queueName, item, rule) ==
  LET q == get(qs, os, queueName)
      g == getRule(rs, rule)
  IN IF q # null
     THEN [rules |-> g.rules, queue |-> qs,
           objs |-> [os EXCEPT ![q].data = Append(@, item),
                               ![q].rule = g.rule, ![q].ruleName = rule], q |-> q]
     ELSE LET new == [cooldown |-> now, data |-> <<item>>, key |-> queueName,
                      rule |-> g.rule, ruleName |-> rule]
          IN [rules |-> g.rules, queue |-> Append(qs, Len(os) + 1),
              objs |-> Append(os, new), q |-> Len(os) + 1]

\* createQueue: the registry, the Map and the objects after the call, and
\* the object it returns
createQueue(rs, qs, os, queueName, item, rule) ==
  LET q == get(qs, os, queueName) IN
  IF q # null
  THEN [rules |-> rs, queue |-> qs,
        objs |-> [os EXCEPT ![q].data = Append(@, item)], q |-> q]
  ELSE LET g == getRule(rs, rule)
           new == [cooldown |-> now, data |-> <<item>>, key |-> queueName,
                   rule |-> g.rule, ruleName |-> rule]
       IN [rules |-> g.rules, queue |-> Append(qs, Len(os) + 1),
           objs |-> Append(os, new), q |-> Len(os) + 1]

RECURSIVE sumLength(_, _, _)
sumLength(qs, os, i) ==
  IF i > Len(qs) THEN 0 ELSE Len(os[qs[i]].data) + sumLength(qs, os, i + 1)

totalLength(qs, os) == sumLength(qs, os, 1)

\* the items in the partitions of the Map
Queued(qs, os) ==
  UNION {{os[qs[n]].data[m] : m \in 1..Len(os[qs[n]].data)} : n \in 1..Len(qs)}

\* isCool without its comparison
isCool_always(q, comparedTo) == TRUE

isCool(q, comparedTo) == q.cooldown <= comparedTo

\* isOverheated without its comparison
isOverheated_never(oh) == FALSE

isOverheated(oh) == oh > now

\* a < b of two numbers of which a can be undefined: the comparison of
\* undefined with a number is false
lessThan(a, b) == a # Undefined /\ a < b

\* line 247 without its comparison of priorities
moreImportant_any(q, maximumPriority) ==
  Len(q.data) # 0 /\ q.cooldown <= now

\* line 247 with <= for its comparison of priorities
moreImportant_orEqual(q, maximumPriority) ==
  q.rule.priority <= maximumPriority /\ Len(q.data) # 0 /\ isCool(q, now)

\* line 247 for priorities that compare false with every number
moreImportant_never(q, maximumPriority) == FALSE

\* line 247: the partition replaces the selection made so far
moreImportant(q, maximumPriority) ==
  lessThan(q.rule.priority, maximumPriority) /\ Len(q.data) # 0 /\ isCool(q, now)

\* line 252 without its comparison with the soonest cooldown so far
soonest_last(q, minimalCooldown) == q.cooldown > now

\* line 252: the partition's cooldown is the soonest future one so far
soonest(q, minimalCooldown) ==
  q.cooldown < minimalCooldown /\ q.cooldown > now

\* the forEach of findMostImportant, from the i-th entry of the Map on
RECURSIVE forEach(_, _, _, _)
forEach(qs, os, i, acc) ==
  IF i > Len(qs) THEN acc
  ELSE LET q == os[qs[i]]
           a1 == IF moreImportant(q, acc.maximumPriority)
                 THEN [acc EXCEPT !.maximumPriority = q.rule.priority,
                                  !.selectedQueue = qs[i]]
                 ELSE acc
           a2 == IF soonest(q, a1.minimalCooldown)
                 THEN [a1 EXCEPT !.minimalCooldown = q.cooldown]
                 ELSE a1
       IN forEach(qs, os, i + 1, a2)

\* findMostImportant with the test of lines 271-275 before its delays
findMostImportant_drainFirst(qs, os, oh, ignore) ==
  LET acc == forEach(qs, os, 1,
                     [maximumPriority |-> Infinity, selectedQueue |-> null,
                      minimalCooldown |-> Infinity])
      selectedQueue == acc.selectedQueue
      minimalCooldown == acc.minimalCooldown
      defactoMinimalCooldown == minimalCooldown - now
  IN IF \E n \in 1..Len(qs) : os[qs[n]].rule = undefinedRule
     THEN [res |-> "throw", q |-> null, time |-> 0]
     ELSE IF selectedQueue = null /\ totalLength(qs, os) = 0
     THEN [res |-> "drain", q |-> null, time |-> 0]
     ELSE IF selectedQueue = null /\ defactoMinimalCooldown > 0 /\ minimalCooldown # Infinity
     THEN [res |-> "delay", q |-> null, time |-> defactoMinimalCooldown]
     ELSE IF isOverheated(oh) /\ ~ignore
     THEN [res |-> "delay", q |-> null, time |-> oh - now]
     ELSE [res |-> "return", q |-> selectedQueue, time |-> 0]

\* findMostImportant() with no pinned partition, up to its first await or
\* its return: "delay" suspends for .time ms and scans again, "drain"
\* clears the pending flag and returns null, "return" returns .q (null or
\* an object), "throw" is the TypeError of line 247 for a partition whose
\* rule is undefined: the promise is rejected, and so are those of shift()
\* and execute(), whose await of it is outside the try block
findMostImportant(qs, os, oh, ignore) ==
  LET acc == forEach(qs, os, 1,
                     [maximumPriority |-> Infinity, selectedQueue |-> null,
                      minimalCooldown |-> Infinity])
      selectedQueue == acc.selectedQueue
      minimalCooldown == acc.minimalCooldown
      defactoMinimalCooldown == minimalCooldown - now
  IN IF \E n \in 1..Len(qs) : os[qs[n]].rule = undefinedRule
     THEN [res |-> "throw", q |-> null, time |-> 0]
     ELSE IF selectedQueue = null /\ defactoMinimalCooldown > 0 /\ minimalCooldown # Infinity
     THEN [res |-> "delay", q |-> null, time |-> defactoMinimalCooldown]
     ELSE IF isOverheated(oh) /\ ~ignore
     THEN [res |-> "delay", q |-> null, time |-> oh - now]
     ELSE IF selectedQueue = null /\ totalLength(qs, os) = 0
     THEN [res |-> "drain", q |-> null, time |-> 0]
     ELSE [res |-> "return", q |-> selectedQueue, time |-> 0]

\* execute(queue) without line 176: the flag is left as it is
execute_unflagged(q, qs, os, oh, ignore, quiet) ==
  IF q # null
  THEN [pending |-> FALSE, chain |-> Chain("shift", q, null, 0, TRUE, quiet)]
  ELSE LET f == findMostImportant(qs, os, oh, ignore)
       IN [pending |-> f.res # "drain",
           chain |-> IF f.res = "delay"
                     THEN Chain("delay", null, null, f.time, FALSE, quiet)
                     ELSE Chain("shift", f.q, null, 0, FALSE, quiet)]

\* execute(queue) up to its first suspension: the pending flag after it and
\* the suspended activation (after a "throw" it ends at its next step as it
\* does when shift() returns null)
execute(q, qs, os, oh, ignore, quiet) ==
  IF q # null
  THEN [pending |-> TRUE, chain |-> Chain("shift", q, null, 0, TRUE, quiet)]
  ELSE LET f == findMostImportant(qs, os, oh, ignore)
       IN [pending |-> f.res # "drain",
           chain |-> IF f.res = "delay"
                     THEN Chain("delay", null, null, f.time, FALSE, quiet)
                     ELSE Chain("shift", f.q, null, 0, FALSE, quiet)]

\* line 126 without its test of the pending flag
startsLoop_always(p) == TRUE

\* line 126: add() starts a dispatch loop
startsLoop(p) == ~p

\* setCooldown that puts every partition of the rule in cooldown
setCooldown_perRule(rs, os, q) ==
  LET ruleData == rs[os[q].ruleName]
      defactoCooldown == Window(ruleData)
      cooldown == now + defactoCooldown
  IN [objs |-> [o \in 1..Len(os) |->
                  IF os[o].ruleName = os[q].ruleName
                  THEN [os[o] EXCEPT !.cooldown = cooldown] ELSE os[o]],
      timer |-> Timer("cooldown", q, null, cooldown, defactoCooldown)]

\* setCooldown: the object's new cooldown and the timer it arms
setCooldown(rs, os, q) ==
  LET ruleData == rs[os[q].ruleName]
      defactoCooldown == Window(ruleData)
      cooldown == now + defactoCooldown
  IN [objs |-> [os EXCEPT ![q].cooldown = cooldown],
      timer |-> Timer("cooldown", q, null, cooldown, defactoCooldown)]

\* heat without its test of ignoreOverallOverheat
heat_always(oh, ignore) ==
  [overheat |-> now + heatPart,
   armed |-> SetToBag({Timer("heat", null, null, now + heatPart, heatPart)})]

\* heat: the overheat timestamp after it and the timers it arms
heat(oh, ignore) ==
  IF ignore
  THEN [overheat |-> oh, armed |-> EmptyBag]
  ELSE [overheat |-> now + heatPart,
        armed |-> SetToBag({Timer("heat", null, null, now + heatPart, heatPart)})]

\* retryFn(delay): the retryTimer it records
retryFn(delay) == IF delay = Undefined \/ delay = 0 THEN retryTime ELSE delay

\* addRetry without the conversion of seconds to ms
addRetry_ms(item, q, delay) == Timer("retry", q, item, 0, delay)

\* addRetry(item, delay): the timer of its delay; when it fires the item is
\* added again under the key and ruleName of the partition q
addRetry(item, q, delay) == Timer("retry", q, item, 0, delay * 1000)

RemoveAt(s, i) == SubSeq(s, 1, i - 1) \o SubSeq(s, i + 1, Len(s))

\* lines 194-195 with this.execute() after the await of requestPromise
awaited_all(rs) == rs

\* lines 194-195: this.execute() is called before requestPromise is
\* awaited, so the steps of the loop wait for none of the running operations
awaited(rs) == {}

\* a microtask of the dispatch loop is queued: no timer callback runs and
\* no time passes before it has run
Microtask == \E c \in 1..Len(chains) : chains[c].pc \in {"shift", "exec"}

\* code of the users can run now: the turn of the event loop is theirs, or
\* one of their functions has run in it
UserTurn == \A c \in 1..Len(chains) : chains[c].pc \in {"shift", "exec"} => ~chains[c].quiet

\* -------------------------------------------------------------- the state

\* the instance after its constructor
Constructed ==
  /\ queue = <<>>
  /\ objs = <<>>
  /\ overheat = now
  /\ pending = FALSE
  /\ chains = <<>>
  /\ running = {}
  /\ timers = EmptyBag
  /\ items = [i \in Items |-> [att |-> 0, cb |-> 0, res |-> "none", last |-> "none", rt |-> 0]]
  /\ nextId = 1
  /\ ghost = [k \in Keys |-> <<>>]
  /\ lastStart = [k \in Keys |-> 0 - Horizon]
  /\ lastRule = [k \in Keys |-> "none"]
  /\ retries = 0
  /\ clears = 0
  /\ dropped = {}
  /\ asked = [i \in Items |-> "none"]
  /\ clock = 0
  /\ started = [k \in Keys |-> 0]

Init ==
  /\ load \in Workloads
  /\ ignoreOverallOverheat \in BOOLEAN
  /\ ownRules = TRUE
  /\ rules = ConfigRules
  /\ defaultParams = [rules |-> DefaultRules]
  /\ Constructed

\* the calls made so far by the users of the instance: request(), retry()
\* and clear()
Calls == (nextId - 1) + retries + clears

\* add(request, callback, key, rule), for the request and callback of item
add(item, key, rule, quiet) ==
  LET c == createQueue(rules, queue, objs, key, item, rule) IN
  /\ rules' = c.rules
  /\ defaultParams' = IF ownRules THEN defaultParams ELSE [defaultParams EXCEPT !.rules = c.rules]
  /\ queue' = c.queue
  /\ objs' = c.objs
  /\ ghost' = [ghost EXCEPT ![key] = Append(@, item)]
  /\ dropped' = dropped \ {item}
  /\ IF startsLoop(pending)
     THEN LET e == execute(c.q, c.queue, c.objs, overheat, ignoreOverallOverheat, quiet)
          IN pending' = e.pending /\ chains' = Append(chains, e.chain)
     ELSE UNCHANGED <<pending, chains>>

\* callback(error) or callback(null, data) of the item
callback(its, item, res) ==
  [its EXCEPT ![item].cb = @ + 1, ![item].res = res]

\* ------------------------------------------------------------ the actions

\* no request has been invoked, no item popped and the store never cleared:
\* only calls of request() have happened since construction
OnlySubmitted ==
  /\ clears = 0
  /\ \A i \in Items : items[i].att = 0
  /\ \A c \in 1..Len(chains) : chains[c].pc = "shift" /\ chains[c].pinned

\* request(fn, key, rule) for a new item
Submit(key, rule) ==
  /\ UserTurn /\ Calls < load.calls
  /\ load.burst => OnlySubmitted
  /\ add(nextId, key, rule, FALSE)
  /\ nextId' = nextId + 1
  /\ asked' = [asked EXCEPT ![nextId] = rule]
  /\ UNCHANGED <<load, ownRules, clock, started, ignoreOverallOverheat, overheat, running, timers, items,
                 lastStart, lastRule, retries, clears>>

\* clear()
Clear ==
  /\ UserTurn /\ Calls < load.calls /\ clears < load.clears
  /\ queue' = clear(queue)
  /\ dropped' = dropped \cup Queued(queue, objs)
  /\ clears' = clears + 1
  /\ UNCHANGED <<load, ownRules, asked, clock, started, rules, defaultParams, ignoreOverallOverheat, objs, overheat, pending, chains,
                 running, timers, items, nextId, ghost, lastStart, lastRule, retries>>

\* shift(queue) after its await: the selected partition is put in cooldown
\* and its head item popped, or null is returned and execute() returns, or
\* setCooldown reads a field of an undefined rule (line 282) and execute()
\* ends with the TypeError
ShiftStep(c) ==
  /\ c \in 1..Len(chains)
  /\ chains[c].pc = "shift"
  /\ awaited(running) = {}
  /\ LET currentQueue == chains[c].q IN
     IF \/ currentQueue = null
        \/ Len(objs[currentQueue].data) = 0
        \/ lookup(rules, objs[currentQueue].ruleName) = undefinedRule
     THEN /\ chains' = RemoveAt(chains, c)
          /\ UNCHANGED <<objs, timers>>
     ELSE LET sc == setCooldown(rules, objs, currentQueue)
              item == Head(objs[currentQueue].data)
          IN /\ objs' = [sc.objs EXCEPT ![currentQueue].data = Tail(@)]
             /\ timers' = timers (+) SetToBag({sc.timer})
             /\ chains' = [chains EXCEPT ![c] = Chain("exec", currentQueue, item, 0, chains[c].pinned, chains[c].quiet)]
  /\ UNCHANGED <<load, ownRules, asked, clock, started, dropped, rules, defaultParams, ignoreOverallOverheat, queue, overheat, pending, running,
                 items, nextId, ghost, lastStart, lastRule, retries, clears>>

\* execute() after its await of shift(): the request is invoked; it may
\* call retry() at once (signals); then it throws, or it returns a promise
\* and the loop goes on with heat() and execute()
Dispatch(c, throws, signals) ==
  /\ c \in 1..Len(chains)
  /\ chains[c].pc = "exec"
  /\ awaited(running) = {}
  /\ signals => Calls < load.calls /\ retries < load.retries
  /\ retries' = IF signals THEN retries + 1 ELSE retries
  /\ LET item == chains[c].item
         q == chains[c].q
         key == objs[q].key
         invoked == [items EXCEPT ![item].att = @ + 1,
                                  ![item].last = IF throws THEN "threw" ELSE "running"]
     IN /\ ghost' = [ghost EXCEPT ![key] = SelectSeq(@, LAMBDA x : x # item)]
        /\ lastStart' = [lastStart EXCEPT ![key] = now]
        /\ lastRule' = [lastRule EXCEPT ![key] = objs[q].ruleName]
        /\ started' = IF load.burst THEN [started EXCEPT ![key] = @ + 1] ELSE started
        /\ IF throws
           THEN /\ items' = callback(invoked, item, "error")
                /\ chains' = RemoveAt(chains, c)
                /\ UNCHANGED <<running, overheat, timers, pending>>
           ELSE LET h == heat(overheat, ignoreOverallOverheat)
                    e == execute(null, queue, objs, h.overheat, ignoreOverallOverheat, FALSE)
                IN /\ items' = invoked
                   /\ running' = running \cup
                        {[item |-> item, q |-> q, retryState |-> signals,
                          retryTimer |-> IF signals THEN retryFn(Undefined) ELSE 0,
                          arg |-> Undefined]}
                   /\ overheat' = h.overheat
                   /\ timers' = timers (+) h.armed
                   /\ pending' = e.pending
                   /\ chains' = [chains EXCEPT ![c] = e.chain]
  /\ UNCHANGED <<load, ownRules, asked, clock, dropped, rules, defaultParams, ignoreOverallOverheat, queue, objs, nextId, clears>>

\* the running operation of an item calls retry(delay)
SignalRetry(r, delay) ==
  /\ r \in running
  /\ UserTurn /\ Calls < load.calls /\ retries < load.retries
  /\ running' = (running \ {r}) \cup
       {[r EXCEPT !.retryState = TRUE, !.retryTimer = retryFn(delay), !.arg = delay]}
  /\ retries' = retries + 1
  /\ UNCHANGED <<load, ownRules, asked, clock, started, dropped, rules, defaultParams, ignoreOverallOverheat, queue, objs, overheat, pending, chains,
                 timers, items, nextId, ghost, lastStart, lastRule, clears>>

\* lines 195-203 with the test of retryState before the catch
settle_retryFirst(ok, retryState) ==
  IF retryState THEN "addRetry" ELSE IF ~ok THEN "error" ELSE "value"

\* lines 195-203 with addRetry for every attempt that resolves
settle_always(ok, retryState) == IF ~ok THEN "error" ELSE "addRetry"

\* lines 195-203 without the test of retryState
settle_value(ok, retryState) == IF ~ok THEN "error" ELSE "value"

\* lines 195-203: what execute() does when requestPromise settles
settle(ok, retryState) ==
  IF ~ok THEN "error" ELSE IF retryState THEN "addRetry" ELSE "value"

\* line 196 reading a retryState that the activations share
ownRetryState_shared(r, rs) == \E x \in rs : x.retryState

\* line 196: the retryState that execute() reads when requestPromise has
\* resolved is the variable of its own activation r (line 178), whatever
\* the other activations rs have in theirs
ownRetryState(r, rs) == r.retryState

\* execute() after its await of requestPromise: the promise was resolved
\* (ok) or rejected
Settle(r, ok) ==
  /\ r \in running /\ UserTurn
  /\ running' = running \ {r}
  /\ LET ended == [items EXCEPT ![r.item].last =
                     IF ~ok THEN "rejected"
                     ELSE IF ownRetryState(r, running) THEN "retried" ELSE "resolved",
                                  ![r.item].rt =
                     IF ok /\ ownRetryState(r, running) THEN @ + 1 ELSE @]
         do == settle(ok, ownRetryState(r, running))
     IN IF do = "addRetry"
        THEN /\ timers' = timers (+) SetToBag({addRetry(r.item, r.q, r.retryTimer)})
             /\ items' = ended
        ELSE /\ items' = callback(ended, r.item, do)
             /\ UNCHANGED timers
  /\ UNCHANGED <<load, ownRules, asked, clock, started, dropped, rules, defaultParams, ignoreOverallOverheat, queue, objs, overheat, pending, chains,
                 nextId, ghost, lastStart, lastRule, retries, clears>>

Due(t) == t.due <= now /\ ~Microtask

\* the timer callback of setCooldown
CooldownExpiry(t) ==
  /\ BagIn(t, timers) /\ t.kind = "cooldown" /\ Due(t)
  /\ timers' = timers (-) SetToBag({t})
  /\ objs' = [objs EXCEPT ![t.q].cooldown = now + Max(@ - t.stamp, 0)]
  /\ queue' = IF Len(objs[t.q].data) = 0 THEN remove(queue, objs, objs[t.q].key) ELSE queue
  /\ UNCHANGED <<load, ownRules, asked, clock, started, dropped, rules, defaultParams, ignoreOverallOverheat, overheat, pending, chains, running,
                 items, nextId, ghost, lastStart, lastRule, retries, clears>>

\* the timer callback of heat
HeatExpiry(t) ==
  /\ BagIn(t, timers) /\ t.kind = "heat" /\ Due(t)
  /\ timers' = timers (-) SetToBag({t})
  /\ overheat' = now + Max(overheat - t.stamp, 0)
  /\ UNCHANGED <<load, ownRules, asked, clock, started, dropped, rules, defaultParams, ignoreOverallOverheat, queue, objs, pending, chains, running,
                 items, nextId, ghost, lastStart, lastRule, retries, clears>>

\* addRetry after its delay
RetryExpiry(t) ==
  /\ BagIn(t, timers) /\ t.kind = "retry" /\ Due(t)
  /\ timers' = timers (-) SetToBag({t})
  /\ add(t.item, objs[t.q].key, objs[t.q].ruleName, TRUE)
  /\ UNCHANGED <<load, ownRules, asked, clock, started, ignoreOverallOverheat, overheat, running, items, nextId,
                 lastStart, lastRule, retries, clears>>

\* findMostImportant after one of its delays: it scans again
Wake(c) ==
  /\ c \in 1..Len(chains)
  /\ chains[c].pc = "delay"
  /\ chains[c].due <= now /\ ~Microtask
  /\ awaited(running) = {}
  /\ LET f == findMostImportant(queue, objs, overheat, ignoreOverallOverheat) IN
     /\ pending' = IF f.res = "drain" THEN FALSE ELSE pending
     /\ chains' = [chains EXCEPT ![c] =
                     IF f.res = "delay" THEN Chain("delay", null, null, f.time, FALSE, TRUE)
                     ELSE Chain("shift", f.q, null, 0, FALSE, TRUE)]
  /\ UNCHANGED <<load, ownRules, asked, clock, started, dropped, rules, defaultParams, ignoreOverallOverheat, queue, objs, overheat, running, timers,
                 items, nextId, ghost, lastStart, lastRule, retries, clears>>

\* one second passes
Elapse(t) == [t EXCEPT !.due = @ - Second,
                       !.stamp = IF t.kind = "retry" THEN @ ELSE @ - Second]
Past(x, floor) == Max(x - Second, floor)

\* a timer callback is due
Overdue ==
  \/ \E t \in BagToSet(timers) : t.due <= now
  \/ \E c \in 1..Len(chains) : chains[c].pc = "delay" /\ chains[c].due <= now

Tick ==
  /\ ~Microtask
  /\ load.burst => ~Overdue /\ clock < MaxClock * Second
  /\ clock' = IF load.burst /\ nextId > 1 THEN clock + Second ELSE clock
  /\ \A t \in BagToSet(timers) : t.due - Second >= Floor
  /\ \A c \in 1..Len(chains) : chains[c].due - Second >= Floor
  /\ timers' = LET S == BagToSet(timers)
               IN [u \in {Elapse(t) : t \in S} |->
                     timers[CHOOSE t \in S : Elapse(t) = u]]
  /\ chains' = [c \in 1..Len(chains) |-> [chains[c] EXCEPT !.due = @ - Second]]
  /\ objs' = [o \in 1..Len(objs) |-> [objs[o] EXCEPT !.cooldown = Past(@, Floor)]]
  /\ overheat' = Past(overheat, Floor)
  /\ lastStart' = [k \in Keys |-> Past(lastStart[k], 0 - Horizon)]
  /\ UNCHANGED <<load, ownRules, asked, started, dropped, rules, defaultParams, ignoreOverallOverheat, queue, pending, running, items,
                 nextId, ghost, lastRule, retries, clears>>

Next ==
  \/ \E r \in load.requests : Submit(r[1], r[2])
  \/ Clear
  \/ \E c \in 1..Len(chains) : ShiftStep(c)
  \/ \E c \in 1..Len(chains), throws, signals \in BOOLEAN : Dispatch(c, throws, signals)
  \/ \E r \in running, delay \in RetryArgs : SignalRetry(r, delay)
  \/ \E r \in running, ok \in BOOLEAN : Settle(r, ok)
  \/ \E t \in BagToSet(timers) : CooldownExpiry(t)
  \/ \E t \in BagToSet(timers) : HeatExpiry(t)
  \/ \E t \in BagToSet(timers) : RetryExpiry(t)
  \/ \E c \in 1..Len(chains) : Wake(c)
  \/ Tick

Spec == Init /\ [][Next]_vars

\* The instance with the default ignoreOverallOverheat (line 68), used only
\* through request(): no retry() and no clear(), one more submission, both
\* keys.
SubmitLoad ==
  [calls |-> MaxCalls + 1, retries |-> 0, clears |-> 0, burst |-> FALSE,
   requests |-> {<<"a", "common">>, <<"b", "individual">>}]

InitSubmit ==
  /\ load = SubmitLoad
  /\ ignoreOverallOverheat = TRUE
  /\ ownRules = TRUE
  /\ rules = ConfigRules
  /\ defaultParams = [rules |-> DefaultRules]
  /\ Constructed

NextSubmit ==
  \/ \E r \in load.requests : Submit(r[1], r[2])
  \/ \E c \in 1..Len(chains) : ShiftStep(c)
  \/ \E c \in 1..Len(chains), throws, signals \in BOOLEAN : Dispatch(c, throws, signals)
  \/ \E r \in running, ok \in BOOLEAN : Settle(r, ok)
  \/ \E t \in BagToSet(timers) : CooldownExpiry(t)
  \/ \E c \in 1..Len(chains) : Wake(c)
  \/ Tick

SpecSubmit == InitSubmit /\ [][NextSubmit]_vars

\* The instance constructed with rules that do not hold the default rule
\* name, as the instances of the tests 'should clear queues' and 'should
\* execute tasks regardless of execution time' and of the README are, and
\* used only through request().
BareRules == [individual |-> ConfigRules.individual]

BareLoad ==
  [calls |-> MaxCalls, retries |-> 0, clears |-> 0, burst |-> FALSE,
   requests |-> {<<"b", "individual">>, <<"a", "lol">>}]

InitBare ==
  /\ load = BareLoad
  /\ ignoreOverallOverheat = TRUE
  /\ ownRules = TRUE
  /\ rules = BareRules
  /\ defaultParams = [rules |-> DefaultRules]
  /\ Constructed

SpecBare == InitBare /\ [][NextSubmit]_vars

\* The instance constructed without a rules map (new SmartQueue() or params
\* that hold no rules), used only through request(): params.rules is the
\* object defaultParams.rules, which every other instance constructed
\* without a rules map holds too.
SharedLoad ==
  [calls |-> MaxCalls, retries |-> 0, clears |-> 0, burst |-> FALSE,
   requests |-> {<<"a", "common">>, <<"b", "lol">>}]

InitShared ==
  /\ load = SharedLoad
  /\ ignoreOverallOverheat = TRUE
  /\ ownRules = FALSE
  /\ rules = DefaultRules
  /\ defaultParams = [rules |-> DefaultRules]
  /\ Constructed

SpecShared == InitShared /\ [][NextSubmit]_vars

\* The instance with the default ignoreOverallOverheat, given a burst: all
\* its requests in the synchronous step after construction, to two keys
\* whose rules differ, as in the test 'should properly schedule requests on
\* multiple queues', and exact timers.
BurstLoad ==
  [calls |-> MaxCalls + 1, retries |-> 0, clears |-> 0, burst |-> TRUE,
   requests |-> {<<"a", "common">>, <<"b", "individual">>}]

InitBurst ==
  /\ load = BurstLoad
  /\ ignoreOverallOverheat = TRUE
  /\ ownRules = TRUE
  /\ rules = ConfigRules
  /\ defaultParams = [rules |-> DefaultRules]
  /\ Constructed

SpecBurst == InitBurst /\ [][NextSubmit]_vars

\* The instance with the default ignoreOverallOverheat, used only through
\* request(), for two keys that can be under one rule name, of one
\* priority, or under two.
TwinLoad ==
  [calls |-> MaxCalls, retries |-> 0, clears |-> 0, burst |-> FALSE,
   requests |-> {<<"a", "individual">>, <<"b", "individual">>, <<"a", "common">>}]

InitTwin ==
  /\ load = TwinLoad
  /\ ignoreOverallOverheat = TRUE
  /\ ownRules = TRUE
  /\ rules = ConfigRules
  /\ defaultParams = [rules |-> DefaultRules]
  /\ Constructed

SpecTwin == InitTwin /\ [][NextSubmit]_vars

\* The instance with the default ignoreOverallOverheat, used through
\* request() for one key and through retry(), once.
RetryLoad ==
  [calls |-> MaxCalls + 1, retries |-> MaxRetries, clears |-> 0, burst |-> FALSE,
   requests |-> {<<"b", "individual">>}]

InitRetry ==
  /\ load = RetryLoad
  /\ ignoreOverallOverheat = TRUE
  /\ ownRules = TRUE
  /\ rules = ConfigRules
  /\ defaultParams = [rules |-> DefaultRules]
  /\ Constructed

NextRetry ==
  \/ \E r \in load.requests : Submit(r[1], r[2])
  \/ \E c \in 1..Len(chains) : ShiftStep(c)
  \/ \E c \in 1..Len(chains), throws, signals \in BOOLEAN : Dispatch(c, throws, signals)
  \/ \E r \in running, delay \in RetryArgs : SignalRetry(r, delay)
  \/ \E r \in running, ok \in BOOLEAN : Settle(r, ok)
  \/ \E t \in BagToSet(timers) : CooldownExpiry(t)
  \/ \E t \in BagToSet(timers) : RetryExpiry(t)
  \/ \E c \in 1..Len(chains) : Wake(c)
  \/ Tick

SpecRetry == InitRetry /\ [][NextRetry]_vars

\* The instance of the README's example: its rules hold no default rule
\* name and the rule of the group messages has no priority (rates scaled as
\* those of ConfigRules are).  It is used only through request().
ReadmeRules ==
  [telegramIndividual |-> [rate |-> 1, limit |-> 1, priority |-> 1],
   telegramGroup |-> [rate |-> 1, limit |-> 2, priority |-> Undefined]]

ReadmeLoad ==
  [calls |-> MaxCalls, retries |-> 0, clears |-> 0, burst |-> FALSE,
   requests |-> {<<"a", "telegramGroup">>, <<"b", "telegramIndividual">>}]

InitReadme ==
  /\ load = ReadmeLoad
  /\ ignoreOverallOverheat = TRUE
  /\ ownRules = TRUE
  /\ rules = ReadmeRules
  /\ defaultParams = [rules |-> DefaultRules]
  /\ Constructed

SpecReadme == InitReadme /\ [][NextSubmit]_vars

\* ----------------------------------------------------- reading the state

InSeq(x, sq) == \E n \in 1..Len(sq) : sq[n] = x

\* the request of item i is invoked in this step
Starts(i) == items'[i].att > items[i].att

\* the activation that starts item i, and the partition it was popped from
StartingFrom(i) ==
  LET c == CHOOSE c \in 1..Len(chains) : chains[c].pc = "exec" /\ chains[c].item = i
  IN chains[c].q

\* the partitions of the Map
InMap(qs) == {qs[n] : n \in 1..Len(qs)}

\* a non-empty partition of the Map that is eligible now
Eligible(qs, os, o) == o \in InMap(qs) /\ Len(os[o].data) # 0 /\ os[o].cooldown <= now

\* no eligible non-empty partition has a strictly lower priority number than q
Lowest(qs, os, q) ==
  \A o \in InMap(qs) : Eligible(qs, os, o) => os[o].rule.priority >= os[q].rule.priority

\* nothing is scheduled to happen: no activation of the loop, no timer, no
\* running operation
Quiescent == chains = <<>> /\ timers = EmptyBag /\ running = {}

Submitted == 1..(nextId - 1)


\* an item is popped from the partition the activation c holds
Pops(c) ==
  /\ Len(chains') = Len(chains)
  /\ chains[c].pc = "shift" /\ chains'[c].pc = "exec"

\* a scan of findMostImportant ends the step and selects a partition
Selects(c) ==
  /\ Len(chains') = Len(chains)
  /\ chains[c].pc \in {"exec", "delay"}
  /\ chains'[c].pc = "shift" /\ chains'[c].q # null

\* the time of the last dispatch start of the instance
lastAny == Max(lastStart["a"], lastStart["b"])

\* the latest attempt of the item failed
Failed(i) == items[i].last \in {"threw", "rejected"}

\* ------------------------------------------------------------- the claims

\* C1 (as stated): FIFO per partition key.  Whenever the operation of an
\* item begins, it is the earliest enqueued item of its key that has not
\* begun yet (a retry resubmission counts as enqueued when it is re-added);
\* clear() is not called.
C1_Fifo ==
  [][\A i \in Items : \A k \in Keys :
       (clears = 0 /\ Starts(i) /\ InSeq(i, ghost[k])) => Head(ghost[k]) = i]_vars

\* C2 (as stated): the starts of a partition key are spaced by the window of
\* its rule.  Whenever an item of a key begins while the key is bound to the
\* rule its previous start was made under, at least (limit/rate)*1000 ms
\* have passed since that previous start.
C2_RateSpacing ==
  [][\A i \in Items :
       Starts(i) =>
         LET q == objs[StartingFrom(i)]
         IN lastRule[q.key] = q.ruleName => now - lastStart[q.key] >= Window(q.rule)]_vars

\* C3 (as stated): at every pop for dispatch, pinned or not, the partition
\* popped from has the lowest priority number among the non-empty eligible
\* partitions of that instant.
C3_PriorityAtEveryDispatch ==
  [][\A c \in 1..Len(chains) : Pops(c) => Lowest(queue, objs, chains[c].q)]_vars

\* C3 (amended): every selector scan that selects a partition selects one
\* that is non-empty and eligible at the instant of the scan and has the
\* lowest priority number among the partitions that are.
C3_PriorityAtScan ==
  [][\A c \in 1..Len(chains) :
       Selects(c) => /\ Eligible(queue', objs', chains'[c].q)
                     /\ Lowest(queue', objs', chains'[c].q)]_vars

\* a scan has selected a partition while another one, of a higher priority
\* number, was non-empty and eligible too
C3_Witness ==
  \E c \in 1..Len(chains) :
    /\ chains[c].pc = "shift" /\ ~chains[c].pinned /\ chains[c].q # null
    /\ \E o \in InMap(queue) :
         /\ Eligible(queue, objs, o)
         /\ objs[o].rule.priority > objs[chains[c].q].rule.priority

\* C4: the callback of an item is invoked at most once over all its
\* attempts; when it has been invoked it was given the value of the last
\* attempt, which resolved, or the error of the last attempt, which threw or
\* rejected; an attempt that resolved after a retry signal did not invoke it.
C4_CallbackOnce ==
  \A i \in Items :
    /\ items[i].cb <= 1
    /\ items[i].cb = 1 =>
         \/ items[i].res = "value" /\ items[i].last = "resolved"
         \/ items[i].res = "error" /\ Failed(i)
    /\ items[i].last = "retried" => items[i].cb = 0

\* an item was attempted twice and its callback invoked
C4_Witness ==
  \E i \in Items : items[i].att = 2 /\ items[i].cb = 1 /\ items[i].last = "resolved"

\* the activation c of the loop is alive: it sleeps on a timer, is about to
\* invoke a request, or is about to pop an item
Alive(c) ==
  \/ chains[c].pc \in {"delay", "exec"}
  \/ /\ chains[c].pc = "shift"
     /\ chains[c].q # null
     /\ Len(objs[chains[c].q].data) # 0

\* C5: at most one activation of the loop is alive in every reachable state,
\* and no step taken while the pending flag is true starts another one.
C5_OneLoop ==
  /\ [](Cardinality({c \in 1..Len(chains) : Alive(c)}) <= 1)
  /\ [][pending => Len(chains') <= Len(chains)]_vars

\* two items wait in the store while the one loop sleeps
C5_Witness ==
  /\ pending
  /\ \E c \in 1..Len(chains) : chains[c].pc = "delay"
  /\ totalLength(queue, objs) >= 2

\* C6: whenever an item is popped for dispatch, by the pinned first dispatch
\* or after a scan, the cooldown of the partition it is popped from is not
\* in the future.
C6_PopsFromCool ==
  [][\A c \in 1..Len(chains) : Pops(c) => objs[chains[c].q].cooldown <= now]_vars

\* the pinned first dispatch has popped an item of a key that was
\* dispatched from before, less than two windows ago
C6_Witness ==
  \E c \in 1..Len(chains) :
    /\ chains[c].pc = "exec" /\ chains[c].pinned
    /\ lastRule[objs[chains[c].q].key] # "none"
    /\ lastStart[objs[chains[c].q].key] > 0 - Horizon

\* C7: with ignoreOverallOverheat = false, whenever the operation of an item
\* begins, at least (overall.limit/overall.rate)*1000 ms have passed since
\* the previous start of the instance, from whichever partition.
C7_OverallSpacing ==
  [][\A i \in Items :
       (~ignoreOverallOverheat /\ Starts(i) /\ (\E k \in Keys : lastRule[k] # "none"))
         => now - lastAny >= (overall.limit * 1000) \div overall.rate]_vars

\* with the overheat in force, an item of key b has just started, a whole
\* overall window after the start of key a, though b was never in cooldown
C7_Witness ==
  /\ ~ignoreOverallOverheat
  /\ lastRule["a"] # "none" /\ lastRule["b"] # "none"
  /\ lastStart["b"] = now /\ lastStart["a"] < now
  /\ \A i \in Submitted : items[i].att <= 1
  /\ Cardinality({i \in Submitted : items[i].att = 1}) = 2

\* C8 (as stated): with no retry() and no clear(), once every operation has
\* settled and no timer is left, every submitted item has been dispatched,
\* totalLength is 0 and the pending flag is false (no operation threw
\* synchronously).
C8_Drains ==
  (Quiescent /\ retries = 0 /\ clears = 0 /\ \A i \in Submitted : items[i].last # "threw")
    => /\ \A i \in Submitted : items[i].att >= 1
       /\ totalLength(queue, objs) = 0
       /\ ~pending

\* C9 (as stated): a failure is terminal for its own item only.  Once an
\* operation has failed and nothing is scheduled any more, every failed item
\* was given its error and no item is left waiting in the store.
C9_FailureIsLocal ==
  (Quiescent /\ \E i \in Submitted : Failed(i))
    => /\ \A i \in Submitted : Failed(i) => items[i].cb = 1 /\ items[i].res = "error"
       /\ totalLength(queue, objs) = 0

\* the attempt of item i resolves in this step, after a retry signal
ResolvesRetried(i) == items[i].last = "running" /\ items'[i].last = "retried"

\* item i is added again in this step
Resubmitted(i) ==
  /\ nextId' = nextId
  /\ \E k \in Keys : ghost'[k] = Append(ghost[k], i)

\* C10: when an attempt that signalled retry resolves, the callback is not
\* invoked and a timer of retryTimer seconds is armed for the item; the item
\* is added again only when such a timer has run out, after an attempt that
\* resolved with a retry signal, and joins the tail of the partition of its
\* key; a callback that has been invoked was invoked for an attempt that
\* resolved without a retry signal or that failed.
C10_RetryDefers ==
  /\ [](\A i \in Items : items[i].cb >= 1 => items[i].last \in {"resolved", "threw", "rejected"})
  /\ [][\A i \in Items :
          /\ ResolvesRetried(i) =>
               /\ items'[i].cb = items[i].cb
               /\ \E r \in running :
                    /\ r.item = i /\ r.retryState
                    /\ \E t \in BagToSet(timers') :
                         /\ t.kind = "retry" /\ t.item = i
                         /\ t.due = r.retryTimer * Second
                         /\ CopiesIn(t, timers') = CopiesIn(t, timers) + 1
          /\ Resubmitted(i) =>
               /\ items[i].last = "retried" /\ items'[i] = items[i]
               /\ \E t \in BagToSet(timers) :
                    /\ t.kind = "retry" /\ t.item = i /\ t.due <= now
                    /\ CopiesIn(t, timers') = CopiesIn(t, timers) - 1
                    /\ LET q == get(queue', objs', objs[t.q].key)
                       IN q # null /\ objs'[q].data[Len(objs'[q].data)] = i]_vars

\* an item that resolved after a retry signal has been added again and
\* waits in the store
C10_Witness ==
  \E i \in Items :
    /\ items[i].last = "retried" /\ items[i].att = 1 /\ items[i].cb = 0
    /\ \E o \in InMap(queue) : InSeq(i, objs[o].data)

\* the attempt of item i fails in this step: its request throws when it is
\* invoked, or its promise is rejected
Fails(i) == ~Failed(i) /\ items'[i].last \in {"threw", "rejected"}

\* that attempt has called retry()
Signalled(i) ==
  \/ items'[i].last = "threw" /\ retries' > retries
  \/ \E r \in running : r.item = i /\ r.retryState

\* a timer of addRetry is armed for item i
RetryArmed(ts, i) == \E t \in BagToSet(ts) : t.kind = "retry" /\ t.item = i

\* C11: when an attempt that has signalled retry fails, the callback is
\* invoked with the error in that step and no retry timer is armed for the
\* item; an item whose last attempt failed has no retry timer and is in no
\* partition.
C11_FailureOverridesRetry ==
  /\ [](\A i \in Items :
          Failed(i) => /\ ~RetryArmed(timers, i)
                       /\ \A o \in 1..Len(objs) : ~InSeq(i, objs[o].data))
  /\ [][\A i \in Items :
          (Fails(i) /\ Signalled(i)) =>
            /\ items'[i].cb = items[i].cb + 1
            /\ items'[i].res = "error"
            /\ ~RetryArmed(timers', i)]_vars

\* the only attempt made so far signalled retry and failed
C11_Witness ==
  \E i \in Items :
    /\ Failed(i) /\ items[i].att = 1 /\ retries = 1
    /\ \A j \in Items \ {i} : items[j].att = 0

\* C12 (as stated): when an attempt that called retry(D) resolves, the timer
\* armed for the item runs D seconds, for every D >= 0, and retryTime
\* seconds when retry() was called with no argument.
C12_ExplicitDelay ==
  [][\A i \in Items :
       ResolvesRetried(i) =>
         \E r \in running :
           /\ r.item = i
           /\ \E t \in BagToSet(timers') :
                /\ t.kind = "retry" /\ t.item = i
                /\ CopiesIn(t, timers') = CopiesIn(t, timers) + 1
                /\ t.due = (IF r.arg = Undefined THEN retryTime ELSE r.arg) * Second]_vars

\* C13: in the state clear() returns in, totalLength is 0, whatever the Map
\* held and whatever the loop was doing.
C13_ClearEmpties ==
  [][clears' > clears => totalLength(queue', objs') = 0]_vars

\* clear() has dropped two items or more while the loop was active
C13_Witness ==
  /\ clears >= 1 /\ queue = <<>> /\ pending
  /\ Cardinality(dropped) >= 2

\* C14 (as stated): the request of an item that was queued at a clear() is
\* never invoked afterwards and its callback never invoked, the item whose
\* submission started the loop and waits for the pinned first dispatch
\* included.
C14_ClearedNeverStart ==
  [][\A i \in dropped : ~Starts(i) /\ items'[i].cb = items[i].cb]_vars

\* C15 (as stated): a partition created under a rule name that is not
\* registered gets the values of the default rule: its rule is a Rule, the
\* one the registry holds for the default rule name, and the registry holds
\* it for the new name too.
C15_UnknownRuleIsDefault ==
  \A o \in 1..Len(objs) :
    objs[o].ruleName \notin DOMAIN ConfigRules =>
      /\ objs[o].rule # undefinedRule
      /\ objs[o].rule = lookup(rules, defaultRule)
      /\ lookup(rules, objs[o].ruleName) = objs[o].rule

\* C16: no step of the loop waits for a running operation.  In every
\* reachable state, whatever operations are running, an activation that has
\* a partition to pop from can pop, one that holds a popped item can invoke
\* its request, and one whose timer has run out can scan, once the
\* microtasks of the turn are done; and the step that invokes a request
\* that returns a promise leaves the operation running and the loop's next
\* activation already scanning or asleep.
C16_LoopNeverWaits ==
  /\ [](\A c \in 1..Len(chains) :
          /\ chains[c].pc = "shift" => ENABLED ShiftStep(c)
          /\ chains[c].pc = "exec" => ENABLED Dispatch(c, FALSE, FALSE)
          /\ (/\ chains[c].pc = "delay" /\ chains[c].due <= now
              /\ \A d \in 1..Len(chains) : chains[d].pc = "delay")
               => ENABLED Wake(c))
  /\ [][\A i \in Items :
          (Starts(i) /\ items'[i].last = "running") =>
            /\ \E r \in running' : r.item = i
            /\ Len(chains') = Len(chains)
            /\ \A c \in 1..Len(chains) :
                 chains[c].pc = "exec" => chains'[c].pc \in {"delay", "shift"}]_vars

\* two operations are running, that of an item started after the other's,
\* and the loop is about to start a third
C16_Witness ==
  /\ Cardinality({r.item : r \in running}) = 2
  /\ \E c \in 1..Len(chains) : chains[c].pc = "exec"

\* the activation c stays asleep on its timer, which has not run out, while
\* a second passes
Sleeps(c) ==
  /\ Len(chains') = Len(chains)
  /\ chains[c].pc = "delay" /\ chains[c].due > now
  /\ chains'[c].pc = "delay" /\ chains'[c].due = chains[c].due - Second

\* C17 (as stated): with the overheat ignored, the loop does not sleep on
\* the cooldown of one partition while an item waits in another partition
\* of the store that is eligible: that item begins at once.
C17_UrgentInterrupts ==
  [][\A c \in 1..Len(chains) :
       (ignoreOverallOverheat /\ Sleeps(c)) =>
         \A o \in InMap(queue) : ~Eligible(queue, objs, o)]_vars

\* the items enqueued (by request() or by a retry) and not yet popped by
\* shift(), leaving out those that a clear() took away
Unpopped ==
  {i \in Submitted :
     /\ \E k \in Keys : InSeq(i, ghost[k])
     /\ i \notin dropped
     /\ \A c \in 1..Len(chains) : ~(chains[c].pc = "exec" /\ chains[c].item = i)}

\* C18 (as stated): in every reachable state totalLength is the number of
\* items enqueued and not yet popped since the last clear(); an item that
\* is executing or waits out a retry delay is not counted.
C18_LengthCountsUnpopped ==
  totalLength(queue, objs) = Cardinality(Unpopped)

\* C19: request() never invokes the operation in its own synchronous step.
\* After N calls of request() alone on a fresh instance totalLength is N;
\* a call of request() starts no item and adds one to totalLength, the
\* activation it starts is suspended before its pop, and an item starts
\* only in a later step of an activation that has popped it.
C19_SubmitIsDeferred ==
  /\ [](OnlySubmitted => totalLength(queue, objs) = nextId - 1)
  /\ [][/\ nextId' > nextId =>
            /\ items' = items
            /\ totalLength(queue', objs') = totalLength(queue, objs) + 1
            /\ \A c \in 1..Len(chains') :
                 c > Len(chains) => chains'[c].pc = "shift"
        /\ \A i \in Items :
             Starts(i) =>
               /\ nextId' = nextId
               /\ \E c \in 1..Len(chains) :
                    chains[c].pc = "exec" /\ chains[c].item = i]_vars

C19_Witness ==
  /\ OnlySubmitted
  /\ nextId - 1 = MaxCalls
  /\ totalLength(queue, objs) = MaxCalls
  /\ Len(chains) = 1

\* the activation c suspends in delay() in this step
Suspends(c) ==
  /\ Len(chains') = Len(chains)
  /\ chains'[c].pc = "delay"
  /\ chains[c].pc # "delay" \/ chains'[c].due > chains[c].due

\* C20: with ignoreOverallOverheat true, isOverheated is false in every
\* reachable state and no timer of heat() is armed; a dispatch leaves the
\* overheat timestamp as it was; and a scan suspends only for the cooldown
\* of a partition of the store, never for the overheat.
C20_OverheatIgnored ==
  /\ [](ignoreOverallOverheat =>
          /\ ~(overheat > now)
          /\ \A t \in BagToSet(timers) : t.kind # "heat")
  /\ [][ignoreOverallOverheat =>
          /\ (\E i \in Items : Starts(i)) => overheat' = overheat
          /\ \A c \in 1..Len(chains) :
               Suspends(c) =>
                 /\ chains'[c].due > now
                 /\ \E o \in InMap(queue') : objs'[o].cooldown = chains'[c].due]_vars

C20_Witness ==
  /\ ignoreOverallOverheat
  /\ Cardinality({i \in Items : items[i].att > 0}) >= 2
  /\ totalLength(queue, objs) > 0
  /\ \E c \in 1..Len(chains) : chains[c].pc = "delay" /\ chains[c].due > now

\* C21 (as stated): no step of an instance changes what another instance
\* observes.  The fields queue, overheat and pending belong to the instance
\* (lines 73-75); the registry another instance constructed without a rules
\* map reads is defaultParams.rules, and no step of this instance, itself
\* constructed without a rules map, changes it.
C21_NoSharedState ==
  [][defaultParams' = defaultParams]_vars

\* the soonest future cooldown among the partitions of the Map is at d
SoonestCooldown(qs, os, d) ==
  /\ d > now
  /\ \E o \in InMap(qs) : os[o].cooldown = d
  /\ \A o \in InMap(qs) : os[o].cooldown > now => os[o].cooldown >= d

\* C22: in a burst (overheat ignored, exact timers, every item submitted in
\* the first synchronous step, two partitions of different rules) the
\* request of the k-th item of a partition (k = 0, 1, ...) is invoked
\* exactly k windows of the partition's rule after the first dispatch, which
\* is made in the millisecond of the submissions; the loop suspends exactly
\* until the soonest future cooldown of the store, and never sleeps while a
\* partition is eligible; when nothing is scheduled any more every item of
\* the burst has started (no request having thrown when invoked).
C22_IndependentThrottle ==
  /\ []((load.burst /\ Quiescent /\ \A i \in Submitted : items[i].last # "threw")
          => \A i \in Submitted : items[i].att = 1)
  /\ [][/\ \A i \in Items :
             Starts(i) =>
               LET q == objs[StartingFrom(i)]
               IN clock = started[q.key] * Window(q.rule)
        /\ \A c \in 1..Len(chains) :
             /\ Suspends(c) => SoonestCooldown(queue', objs', chains'[c].due)
             /\ Sleeps(c) => \A o \in InMap(queue) : ~Eligible(queue, objs, o)]_vars

\* two seconds after the burst the second item of the slower partition has
\* started, one second after the second item of the faster one
C22_Witness ==
  /\ load.burst /\ clock = 2 * Second
  /\ started["a"] = 2 /\ started["b"] = 2
  /\ lastStart["a"] = now /\ lastStart["b"] = now - Second

\* C23 (as stated): whenever an item begins, at least the window of its
\* partition's rule has passed since the last start of every other key
\* that started under the same rule name.
C23_WindowPerRule ==
  [][\A i \in Items :
       Starts(i) =>
         LET q == objs[StartingFrom(i)]
         IN \A k \in Keys \ {q.key} :
              lastRule[k] = q.ruleName => now - lastStart[k] >= Window(q.rule)]_vars

\* C23 (amended): the window applies to the partition, not to the rule.  A
\* pop puts the partition popped from in cooldown for the window of its
\* rule and leaves the cooldown of every other partition as it was, the
\* partitions of the same rule included.
C23_WindowPerPartition ==
  [][\A c \in 1..Len(chains) :
       Pops(c) =>
         LET q == chains[c].q
         IN /\ objs'[q].cooldown = now + Window(rules[objs[q].ruleName])
            /\ \A o \in 1..Len(objs) : o # q => objs'[o].cooldown = objs[o].cooldown]_vars

\* two keys of one rule have both started in this millisecond
C23_Witness ==
  /\ lastRule["a"] = "individual" /\ lastRule["b"] = "individual"
  /\ lastStart["a"] = now /\ lastStart["b"] = now
  /\ \E o \in InMap(queue) : objs[o].key = "a" /\ objs[o].cooldown = now + Window(objs[o].rule)
  /\ \E o \in InMap(queue) : objs[o].key = "b" /\ objs[o].cooldown = now + Window(objs[o].rule)

\* the positions in the Map of the non-empty eligible partitions
EligibleAt(qs, os) == {n \in 1..Len(qs) : Eligible(qs, os, qs[n])}

\* the first partition in the order of the Map among the non-empty eligible
\* ones of the lowest priority number, or null when none is eligible
FirstBest(qs, os) ==
  LET E == EligibleAt(qs, os)
      M == {n \in E : \A m \in E : os[qs[m]].rule.priority >= os[qs[n]].rule.priority}
  IN IF M = {} THEN null ELSE qs[CHOOSE n \in M : \A m \in M : n <= m]

\* C24: a scan with no pinned partition that returns a partition returns
\* the first one in the order of the Map among the non-empty eligible
\* partitions of the lowest priority number, whatever the order in which
\* their items arrived; and a scan suspends for a cooldown only when no
\* partition is eligible.
C24_FirstInMapOrder ==
  [][\A c \in 1..Len(chains) :
       /\ Selects(c) => chains'[c].q = FirstBest(queue', objs')
       /\ (ignoreOverallOverheat /\ Suspends(c)) => FirstBest(queue', objs') = null]_vars

\* a scan has selected the partition inserted first, though the partition
\* inserted after it, of the same priority and eligible too, holds an item
\* that arrived earlier
C24_Witness ==
  \E c \in 1..Len(chains) :
    /\ chains[c].pc = "shift" /\ ~chains[c].pinned
    /\ Len(queue) = 2 /\ chains[c].q = queue[1]
    /\ Eligible(queue, objs, queue[1]) /\ Eligible(queue, objs, queue[2])
    /\ objs[queue[1]].rule.priority = objs[queue[2]].rule.priority
    /\ Head(objs[queue[1]].data) > Head(objs[queue[2]].data)

\* request() is called in this step, for the key k
Requests(k) == nextId' > nextId /\ ghost'[k] # ghost[k]

\* C25: the rule and the ruleName of a partition never change.  A call of
\* request() for a key whose partition is in the Map, under whatever rule
\* name, appends the item to that partition and changes neither the
\* registry nor the Map; and the pop of an item, whatever rule name it was
\* submitted under, puts the partition in cooldown for the window of the
\* rule the partition was created with.
C25_RuleFixedAtCreation ==
  [][/\ \A o \in 1..Len(objs) :
          /\ objs'[o].rule = objs[o].rule
          /\ objs'[o].ruleName = objs[o].ruleName
          /\ objs'[o].key = objs[o].key
     /\ \A k \in Keys :
          (Requests(k) /\ get(queue, objs, k) # null) =>
            LET q == get(queue, objs, k)
            IN /\ rules' = rules
               /\ queue' = queue /\ Len(objs') = Len(objs)
               /\ objs'[q].data = Append(objs[q].data, nextId)
     /\ \A c \in 1..Len(chains) :
          Pops(c) => objs'[chains[c].q].cooldown = now + Window(objs[chains[c].q].rule)]_vars

\* an item submitted under a rule name that is not registered has started
\* from a partition created under another rule: the name is still not
\* registered and the partition cools for the window of its own rule
C25_Witness ==
  \E i \in Submitted : \E o \in InMap(queue) :
    /\ asked[i] = "lol" /\ "lol" \notin DOMAIN rules
    /\ items[i].last = "running" /\ lastStart[objs[o].key] = now
    /\ objs[o].ruleName = "individual"
    /\ objs[o].cooldown = now + Window(ConfigRules.individual)

\* the partition o of the Map is taken out of it in this step, and not by
\* clear()
Removed(o) == o \in InMap(queue) /\ o \notin InMap(queue') /\ clears' = clears

\* C26 (as stated): apart from clear(), a partition is removed from the Map
\* only when its sequence is empty and its cooldown is not in the future.
C26_RemovedOnlyWhenCool ==
  [][\A o \in 1..Len(objs) :
       Removed(o) => Len(objs'[o].data) = 0 /\ objs'[o].cooldown <= now]_vars

\* the items of key k enqueued and not yet started that no clear() took away
Waiting(k) == SelectSeq(ghost[k], LAMBDA y : y \notin dropped)

\* C27 (as stated): an item is added again by the timer of addRetry, under
\* the key and the ruleName of the partition it was dispatched from, at the
\* tail of the partition of that key; when the pending flag is false then,
\* the step starts the loop; and when the item starts again, every item
\* enqueued to its key before it was added again has started.
C27_RetryJoinsTail ==
  [][\A i \in Items :
       /\ Resubmitted(i) =>
            \E t \in BagToSet(timers) :
              /\ t.kind = "retry" /\ t.item = i
              /\ CopiesIn(t, timers') = CopiesIn(t, timers) - 1
              /\ ghost'[objs[t.q].key] = Append(ghost[objs[t.q].key], i)
              /\ LET q == get(queue', objs', objs[t.q].key)
                 IN /\ q # null
                    /\ objs'[q].ruleName = objs[t.q].ruleName
                    /\ objs'[q].data[Len(objs'[q].data)] = i
              /\ ~pending => pending' /\ Len(chains') = Len(chains) + 1
       /\ \A k \in Keys :
            (Starts(i) /\ items[i].att >= 1 /\ i \notin dropped /\ InSeq(i, ghost[k]))
              => Head(Waiting(k)) = i]_vars

\* the activation c ends a scan of findMostImportant in this step
Scans(c) ==
  /\ Len(chains') = Len(chains)
  /\ \/ chains[c].pc = "exec" /\ chains'[c].pc # "exec"
     \/ chains[c].pc = "delay" /\ chains'[c].pc = "shift"
     \/ chains[c].pc = "delay" /\ chains'[c].pc = "delay" /\ chains'[c].due > chains[c].due

\* C28 (as stated): a scan that selects nothing while items are queued, no
\* partition of the Map is cooling and the overheat is not in force
\* suspends the loop for a time and scans again.
C28_RepollsWithBackoff ==
  [][\A c \in 1..Len(chains) :
       (/\ Scans(c)
        /\ ~(chains'[c].pc = "shift" /\ chains'[c].q # null)
        /\ totalLength(queue', objs') > 0
        /\ \A o \in InMap(queue') : objs'[o].cooldown <= now
        /\ ignoreOverallOverheat \/ ~isOverheated(overheat'))
         => chains'[c].pc = "delay" /\ chains'[c].due > now]_vars

\* C29 (as stated): a scan that finds totalLength = 0 clears the pending
\* flag, at that scan.
C29_IdleAtEmptyScan ==
  [][\A c \in 1..Len(chains) :
       (Scans(c) /\ totalLength(queue', objs') = 0) => ~pending']_vars

\* after the step nothing is queued in the Map, none of its partitions is
\* cooling and the overheat is not in force
NothingLeft ==
  /\ totalLength(queue', objs') = 0
  /\ \A o \in InMap(queue') : objs'[o].cooldown <= now
  /\ ignoreOverallOverheat \/ ~isOverheated(overheat')

\* C29 (amended): the pending flag is cleared only by a scan that finds
\* nothing queued, no partition cooling and the overheat not in force, and
\* every such scan clears it and ends the loop; a scan that finds nothing
\* queued while a partition is cooling or the overheat is in force leaves
\* the flag true and suspends, to scan again.
C29_IdleWhenNothingLeft ==
  [][/\ (pending /\ ~pending') => NothingLeft /\ \E c \in 1..Len(chains) : Scans(c)
     /\ \A c \in 1..Len(chains) :
          /\ (Scans(c) /\ NothingLeft) =>
               ~pending' /\ chains'[c].pc = "shift" /\ chains'[c].q = null
          /\ (Scans(c) /\ totalLength(queue', objs') = 0 /\ ~NothingLeft) =>
               pending' /\ chains'[c].pc = "delay" /\ chains'[c].due > now]_vars

\* every submitted item has started and nothing is queued, yet the flag is
\* true and the loop asleep until the cooldown of a partition ends
C29_Witness ==
  /\ pending /\ nextId > 1
  /\ \A i \in Submitted : items[i].att >= 1
  /\ totalLength(queue, objs) = 0
  /\ \E c \in 1..Len(chains) :
       /\ chains[c].pc = "delay" /\ chains[c].due > now
       /\ \E o \in InMap(queue) : objs[o].cooldown = chains[c].due

\* C30: the request of an item is invoked once, and once more for each of
\* its attempts that resolved after a retry signal, never more: it is
\* invoked only when the item has not been attempted or when its latest
\* attempt resolved after a retry signal, so an attempt that failed or that
\* resolved without a retry signal is the last one.
C30_InvokedAgainOnlyOnRetry ==
  /\ [](\A i \in Items :
          /\ items[i].att <= 1 + items[i].rt
          /\ items[i].last = "none" => items[i].att = 0 /\ items[i].rt = 0
          /\ items[i].last = "retried" => items[i].att = items[i].rt
          /\ items[i].last \in {"running", "resolved", "threw", "rejected"}
               => items[i].att = 1 + items[i].rt)
  /\ [][\A i \in Items :
          Starts(i) => /\ items[i].last \in {"none", "retried"}
                       /\ items'[i].att = items[i].att + 1]_vars

\* an item has been invoked twice, after its one attempt that resolved with
\* a retry signal, and another item once
C30_Witness ==
  \E i, j \in Submitted :
    /\ items[i].att = 2 /\ items[i].rt = 1 /\ items[i].last \in {"resolved", "rejected"}
    /\ items[j].att = 1 /\ items[j].rt = 0 /\ items[j].last \in {"resolved", "rejected"}

\* C31: whenever the pending flag is false, at the end of whichever step,
\* totalLength is 0: the flag is cleared only by a scan that finds the store
\* empty, and every step that enqueues an item while it is false sets it.
C31_IdleMeansEmpty ==
  /\ [](~pending => totalLength(queue, objs) = 0)
  /\ [][/\ (pending /\ ~pending') => totalLength(queue', objs') = 0
        /\ (~pending /\ totalLength(queue', objs') > 0) => pending']_vars

\* the loop is idle and the store empty, its partition still in the Map,
\* while an item that was dispatched waits out its retry delay
C31_Witness ==
  /\ ~pending /\ Len(queue) >= 1
  /\ \E i \in Submitted : items[i].last = "retried" /\ RetryArmed(timers, i)

\* the loop is idle and nothing in the instance says that a rate window is
\* open: no partition of the Map is cooling and, unless the overheat is
\* ignored, the overheat is not in force
IdleIsCool ==
  ~pending =>
    /\ \A o \in InMap(queue) : objs[o].cooldown <= now
    /\ ignoreOverallOverheat \/ ~isOverheated(overheat)

\* the activation c, started by add() with its partition, invokes the
\* request of the item it popped from it
PinnedStart(c) ==
  /\ chains[c].pc = "exec" /\ chains[c].pinned
  /\ Starts(chains[c].item)

\* C32 (as stated): whenever the pending flag is false no partition of the
\* Map is cooling and, unless the overheat is ignored, the overheat is not
\* in force; hence the pinned first dispatch of the next submission starts
\* no item within the window of its rule after the previous start of its
\* key nor, unless the overheat is ignored, within the overall window after
\* the previous start of the instance.
C32_PinnedOutsideWindow ==
  /\ []IdleIsCool
  /\ [][\A c \in 1..Len(chains) :
          PinnedStart(c) =>
            LET q == objs[chains[c].q]
            IN /\ lastRule[q.key] = q.ruleName => now - lastStart[q.key] >= Window(q.rule)
               /\ (~ignoreOverallOverheat /\ \E k \in Keys : lastRule[k] # "none")
                    => now - lastAny >= heatPart]_vars

\* no request has thrown when it was invoked
NoneThrew == \A i \in Items : items[i].last # "threw"

\* the priority of every rule of the registry is a finite number
FinitePriorities ==
  \A n \in DOMAIN rules :
    rules[n] # undefinedRule /\ rules[n].priority # Undefined /\ rules[n].priority < Infinity

\* C33: with finite rule priorities and no request that throws when it is
\* invoked, a scan returns no partition only when it clears the pending
\* flag, and whenever the flag is true, with items queued in the Map or
\* without, an activation of the loop is alive: asleep on a timer, about to
\* pop from a partition that holds an item, or about to invoke a popped
\* request.
C33_LoopNeverDies ==
  /\ []((FinitePriorities /\ NoneThrew /\ pending)
          => \E c \in 1..Len(chains) : Alive(c))
  /\ [][FinitePriorities =>
          \A c \in 1..Len(chains) :
            (Scans(c) /\ chains'[c].pc = "shift" /\ chains'[c].q = null) => ~pending']_vars

\* after a clear() the loop that was asleep has scanned again, found the
\* item submitted since in a partition created since, and is about to pop it
C33_Witness ==
  /\ FinitePriorities /\ NoneThrew /\ pending /\ clears = 1
  /\ totalLength(queue, objs) > 0
  /\ \E i \in Submitted : items[i].att >= 1
  /\ \E c \in 1..Len(chains) :
       /\ chains[c].pc = "shift" /\ ~chains[c].pinned
       /\ chains[c].q # null /\ chains[c].q > 1

\* C34 (as stated): the items submitted under a rule that has no priority
\* are all dispatched.  Once nothing is scheduled any more (no activation of
\* the loop, no timer, no running operation), no request having thrown,
\* every item submitted under such a rule has started.
C34_NoPriorityStillDispatched ==
  (Quiescent /\ NoneThrew) =>
    \A i \in Submitted :
      (asked[i] \in DOMAIN rules /\ rules[asked[i]].priority = Undefined) => items[i].att >= 1

\* the attempts, of the items 1..n, that resolved after a retry signal
RECURSIVE Retried(_)
Retried(n) == IF n = 0 THEN 0 ELSE items[n].rt + Retried(n - 1)

\* the running operations that have called retry()
Signalling == {r \in running : r.retryState}

\* C35: the retry state belongs to one attempt of one item.  Every attempt
\* that resolved as retried, and every running attempt that holds a retry
\* signal, accounts for a call of retry() of its own, so no signal defers a
\* second item or a later attempt of the same item.  A step in which
\* retry() is called changes nothing of the Map, arms no retry timer and
\* changes the record of one item only, whatever operations are running;
\* and an attempt that resolves without having called retry() gives its
\* value to the callback in that step.
C35_RetryStateIsPrivate ==
  /\ [](Cardinality(Signalling) + Retried(MaxCalls + 1) <= retries)
  /\ [][/\ retries' > retries =>
             /\ queue' = queue /\ objs' = objs /\ dropped' = dropped
             /\ \A t \in BagToSet(timers') :
                  t.kind = "retry" => CopiesIn(t, timers') = CopiesIn(t, timers)
             /\ \E i \in Items :
                  /\ \A j \in Items \ {i} : items'[j] = items[j]
                  /\ \A r \in running : r.item # i => r \in running'
                  /\ \A r \in running' : r.item # i => r \in running
        /\ \A r \in running :
             (/\ \A x \in running' : x.item # r.item
              /\ ~r.retryState /\ items'[r.item].last = "resolved")
               => /\ items'[r.item].cb = items[r.item].cb + 1
                  /\ items'[r.item].res = "value"
                  /\ ~RetryArmed(timers', r.item)]_vars

\* two operations were running at once; the one that did not call retry()
\* has resolved and given its value, while the other, which did, is still
\* running
C35_Witness ==
  \E r \in running : \E j \in Submitted :
    /\ r.retryState /\ j # r.item
    /\ items[j].last = "resolved" /\ items[j].cb = 1 /\ items[j].res = "value"
    /\ lastStart[objs[r.q].key] = now
    /\ \E k \in Keys : k # objs[r.q].key /\ lastStart[k] = now /\ lastRule[k] # "none"

\* the conditions of a submitted item: it is queued in a partition of the
\* Map; it was popped and its request is about to be invoked or its
\* operation is running; it waits out the delay of addRetry; its callback
\* was invoked; a clear() took it away while it was queued
Conditions(i) ==
  << i \in Queued(queue, objs),
     \/ \E c \in 1..Len(chains) : chains[c].pc = "exec" /\ chains[c].item = i
     \/ \E r \in running : r.item = i,
     RetryArmed(timers, i),
     items[i].cb >= 1,
     i \in dropped >>

\* C36 (as stated): no item is lost.  In every reachable state each
\* submitted item is in exactly one of the conditions: queued in the store,
\* executing, waiting out a retry delay, completed, or dropped by clear();
\* in particular no timer callback takes a partition that holds items out
\* of the Map.
C36_NoItemLost ==
  \A i \in Submitted :
    Cardinality({n \in 1..5 : Conditions(i)[n]}) = 1

\* C37 (as stated): clear() touches only the items queued in the store.
\* The step of clear() leaves the running operations, the timers and the
\* records of the items as they are; and once nothing is scheduled any more
\* after a clear(), no request having thrown, no item is left waiting for
\* the attempt its retry asked for, unless a clear() took it away after it
\* was added again.
C37_ClearSparesRetries ==
  /\ [][clears' > clears => running' = running /\ timers' = timers /\ items' = items]_vars
  /\ []((Quiescent /\ NoneThrew /\ clears >= 1) =>
          \A i \in Submitted : items[i].last = "retried" => i \in dropped)

\* C38 (as stated): the instance stays usable after clear().  Once nothing
\* is scheduled any more after a clear() (no request having thrown, no
\* retry() called), every submitted item that no clear() took away, so
\* every item submitted after the last clear(), has started, and the
\* pending flag is false.
C38_UsableAfterClear ==
  (Quiescent /\ NoneThrew /\ retries = 0 /\ clears >= 1) =>
    /\ \A i \in Submitted : i \notin dropped => items[i].att >= 1
    /\ ~pending

\* the callback of the cooldown timer t runs in this step
CooldownEnds(t) ==
  /\ t.kind = "cooldown" /\ BagIn(t, timers)
  /\ timers' = timers (-) SetToBag({t})

\* the partition object o is the only one its key ever had, so that the
\* last dispatch start of the key is the last pop from o
Sole(o) == \A x \in 1..Len(objs) : objs[x].key = objs[o].key => x = o

\* C39 (as stated): the callback of a cooldown timer never shortens the
\* cooldown set by a later dispatch.  When the partition was dispatched from
\* again, at d, after the timer was armed, its cooldown after the callback
\* is at least d plus the window of its rule; and when it was not, its
\* cooldown after the callback is not in the future.
C39_CallbackKeepsCooldown ==
  [][\A t \in BagToSet(timers) :
       (CooldownEnds(t) /\ Sole(t.q)) =>
         LET window == Window(objs[t.q].rule)
             armed == t.stamp - window
             d == lastStart[objs[t.q].key]
         IN IF d > armed
            THEN objs'[t.q].cooldown >= d + window
            ELSE objs'[t.q].cooldown <= now]_vars
====
